---------------------------- MODULE Spec2Model ----------------------------
(***************************************************************************)
(* Model of the Tuteliq MCP server.                                        *)
(*                                                                         *)
(*  - the HTTP binding: createHttpHandler (src/src/index.ts 1206-1246) and *)
(*    the express route that calls it (src/unnamed/part_000 15-22);        *)
(*  - the tool dispatch of the stdio server: the CallToolRequestSchema     *)
(*    handler (src/src/index.ts 607-1128);                                 *)
(*  - startup: createServer, getTransportMode, startStdio and server.ts    *)
(*    (src/src/index.ts 1154-1204, src/unnamed/part_000);                  *)
(*  - the widgets: useToolResult, DetectionPage and the severity scales    *)
(*    (src/ui/src, src/src/formatters.ts).                                 *)
(*                                                                         *)
(* JavaScript runs one handler at a time and switches handlers only at an  *)
(* await.  Every HTTP request is a process whose pc is the await it is     *)
(* suspended at; one action is one synchronous run of the handler between  *)
(* two awaits.  The awaited calls (server.connect, transport.handleRequest)*)
(* belong to @modelcontextprotocol/sdk; each may resolve or reject.        *)
(***************************************************************************)
EXTENDS Integers, Sequences, FiniteSets, TLC

\* Number of HTTP requests the binding receives in one run.
MaxReq == 3
\* Number of tool invocations the stdio session receives in one run.
MaxCalls == 4

Requests   == 1..MaxReq
\* A POST constructs one transport; the transport is named after its request.
Transports == 1..MaxReq
\* Session identifiers; 0 stands for "no mcp-session-id header" / undefined.
SessionIds == 1..MaxReq
Headers    == 0..MaxReq
Bodies     == {"initialize", "other"}
Calls      == 1..MaxCalls
ToolNames  == {"detect_bullying", "no_such_tool"}

VARIABLES
    transports,   \* the Map of createHttpHandler: session id -> transport
    tr,           \* the StreamableHTTPServerTransport objects
    req,          \* the HTTP requests and the position of their handlers
    issued,       \* how many session identifiers were generated
    delivered,    \* per transport, the requests handed to handleRequest, in call order
    calls,        \* the tool invocations of the stdio session
    emitted,      \* the tool responses written by the stdio session, in order
    proc,         \* the server process: its environment and how far startup got
    tools,        \* the tool descriptors the server lists, in order
    hook,         \* a widget's useToolResult state and the events it received
    page,         \* a detection result and what DetectionPage shows for it
    finding       \* a video safety finding and the levels computed for it

httpVars == <<transports, tr, req, issued, delivered>>
toolVars == <<calls, emitted>>
uiVars   == <<hook, page, finding>>
vars     == <<transports, tr, req, issued, delivered, calls, emitted, proc, tools,
             hook, page, finding>>

NoTransport == [created |-> FALSE, sessionId |-> 0, closed |-> FALSE]
NoRequest   == [method |-> "none", sessionId |-> 0, body |-> "none",
                pc |-> "idle", transport |-> 0, status |-> 0, via |-> 0, owner |-> 0,
                threw |-> FALSE]
NoCall      == [name |-> "none", pc |-> "idle", isError |-> FALSE, text |-> "none",
                hasContent |-> FALSE, listed |-> <<>>]

\* const tools: Tool[]: the descriptors by name, in the order of the array
\* (its first three entries).
RegisteredTools == <<"detect_bullying", "detect_grooming", "detect_unsafe">>

-----------------------------------------------------------------------------
(* The registry Map and the callbacks createHttpHandler installs.          *)

\* transports.has(id)
Has(reg, id) == id \in DOMAIN reg

\* A set that drops the entries already in the map (a lost update).
RegistrySetLosing(reg, id, t) == [i \in {id} |-> t]

\* transports.set(id, transport)
RegistrySet(reg, id, t) ==
    [i \in (DOMAIN reg) \cup {id} |-> IF i = id THEN t ELSE reg[i]]

\* A get that returns the first entry of the map, whatever the key.
RegistryGetFirst(reg, id) == reg[CHOOSE i \in DOMAIN reg : \A j \in DOMAIN reg : i <= j]

\* transports.get(id), called for a key the map has
RegistryGet(reg, id) == reg[id]

\* A delete that clears the whole map.
RegistryDeleteAll(reg, id) == <<>>

\* transports.delete(id)
RegistryDelete(reg, id) == [i \in (DOMAIN reg) \ {id} |-> reg[i]]

\* A generator that returns the same identifier on every call.
sessionIdGeneratorFixed(n) == 1

\* sessionIdGenerator: () => crypto.randomUUID().  A version-4 UUID is taken
\* to be distinct from every identifier generated before it: the n-th call
\* returns the identifier n.
sessionIdGenerator(n) == n + 1

\* An onclose that leaves the registry as it is.
OnCloseKeeping(reg, t) == reg

\* An onclose that deletes the first entry of the map, whatever its value.
OnCloseFirst(reg, t) ==
    IF DOMAIN reg = {} THEN reg
    ELSE RegistryDelete(reg, CHOOSE i \in DOMAIN reg : \A j \in DOMAIN reg : i <= j)

\* transport.onclose: find the first entry whose value is this transport and
\* delete it.  A Map iterates in insertion order, which is identifier order.
OnClose(reg, t) ==
    LET hits == {i \in DOMAIN reg : reg[i] = t}
    IN  IF hits = {} THEN reg
        ELSE RegistryDelete(reg, CHOOSE i \in hits : \A j \in hits : i <= j)

\* A live session: a transport that was initialized (has a session id) and
\* has not been closed.
Live(t) == tr[t].created /\ tr[t].sessionId # 0 /\ ~tr[t].closed

\* The live session a header names, 0 if none.
OwnerOf(h) ==
    IF h # 0 /\ \E t \in Transports : Live(t) /\ tr[t].sessionId = h
    THEN CHOOSE t \in Transports : Live(t) /\ tr[t].sessionId = h
    ELSE 0

\* The mcp-session-id headers a client can send: none (0), an identifier
\* that was issued, or one that was not (all of those are alike to the
\* handler, so the next unissued one stands for them).
HeadersNow == {h \in Headers : h <= issued + 1}

\* Requests arrive one after the other: request r arrives after request r-1.
CanArrive(r) ==
    /\ req[r].pc = "idle"
    /\ IF r = 1 THEN TRUE ELSE req[r - 1].pc # "idle"

\* A handler that awaits between the lookup and the call of handleRequest.
PcAfterLookupAwaiting == "connect"

\* The handler calls transport.handleRequest in the same synchronous run in
\* which it looked the transport up (GET, DELETE): it is then suspended in
\* the call.
PcAfterLookup == "handle"


\* res.status(code).json(...) written by the binding itself (via 0), or the
\* response written by the transport the request was handed to (via t).
Answer(rec, code, t) == [rec EXCEPT !.status = code, !.via = t]

\* A catch that only logs the error.
CatchAnswerSilent(rec) == [rec EXCEPT !.threw = TRUE]

\* mcpHandler(req, res).catch: log, and answer 500 unless the response
\* headers were already sent.
CatchAnswer(rec) ==
    [(IF rec.status = 0 THEN Answer(rec, 500, 0) ELSE rec) EXCEPT !.threw = TRUE]

-----------------------------------------------------------------------------
(* The process: its environment, and the startup code of index.ts and      *)
(* server.ts.  A string is the sequence of its characters.                 *)

STDIO == <<"s", "t", "d", "i", "o">>

\* Values of TUTELIQ_MCP_TRANSPORT: unset, or set to one of these strings.
EnvStrings ==
    { <<>>, STDIO, <<"S", "T", "D", "I", "O">>, <<"S", "t", "d", "I", "o">>,
      <<"h", "t", "t", "p">>, <<"H", "T", "T", "P">>, <<"s", "s", "e">>,
      <<"s", "t", "d", "i", "o", " ">> }

TransportEnvs ==
    {[set |-> FALSE, value |-> <<>>]} \cup {[set |-> TRUE, value |-> v] : v \in EnvStrings}

\* Values of TUTELIQ_API_KEY: unset, the empty string, a key.
ApiKeys ==
    { [set |-> FALSE, value |-> <<>>], [set |-> TRUE, value |-> <<>>],
      [set |-> TRUE, value |-> <<"k">>] }

\* The file node is started with: dist/src/index.js or dist/server.js.
Entries == {"index", "server"}

\* String.prototype.toLowerCase, on the characters used here.
LowerOf(ch) ==
    CASE ch = "S" -> "s"
      [] ch = "T" -> "t"
      [] ch = "D" -> "d"
      [] ch = "I" -> "i"
      [] ch = "O" -> "o"
      [] ch = "H" -> "h"
      [] ch = "P" -> "p"
      [] OTHER -> ch

toLowerCase(str) == [i \in 1..Len(str) |-> LowerOf(str[i])]

\* A selector that compares the value as it is.
getTransportModeExact(e) ==
    IF e.set /\ e.value = STDIO THEN "stdio" ELSE "http"

\* process.env.TUTELIQ_MCP_TRANSPORT?.toLowerCase() === 'stdio'
getTransportMode(e) ==
    IF e.set /\ toLowerCase(e.value) = STDIO THEN "stdio" ELSE "http"

\* process.exit(code)
Exit(p, code) == [p EXCEPT !.pc = "exited", !.exitCode = code]

\* A createServer that does not look at the credential.
createServerUnchecked(p) == [p EXCEPT !.servers = @ + 1]

\* createServer: without TUTELIQ_API_KEY (unset or empty) the process exits
\* with code 1; otherwise a McpServer is made and the tools are registered.
createServer(p) ==
    IF ~p.apiKey.set \/ p.apiKey.value = <<>>
    THEN Exit(p, 1)
    ELSE [p EXCEPT !.servers = @ + 1]

\* startStdio up to its await: the transport is made and server.connect called.
startStdio(p) == [p EXCEPT !.stdio = "connecting"]

StartStates ==
    { [entry |-> e, transportEnv |-> t, apiKey |-> k, pc |-> "start", exitCode |-> 0,
       servers |-> 0, stdio |-> "none", listening |-> FALSE] :
          e \in Entries, t \in TransportEnvs, k \in ApiKeys }

\* The process Spec starts from: server.js, started with a key, is listening.
HttpUp ==
    [entry |-> "server", transportEnv |-> [set |-> FALSE, value |-> <<>>],
     apiKey |-> [set |-> TRUE, value |-> <<"k">>], pc |-> "up", exitCode |-> 0,
     servers |-> 1, stdio |-> "none", listening |-> TRUE]

-----------------------------------------------------------------------------
(* The widgets: the useToolResult hook, DetectionPage and the two          *)
(* severity scales.  JavaScript values are written as strings:             *)
(* "undefined", "true", "false", a string such as "none", and              *)
(* "{unsafe:true}" for a nested object.                                    *)

\* What a tool-result event carries as structuredContent: nothing, or a payload.
Payloads == {"absent", "p1", "p2"}

\* useState(null), useState(true); events is the history of what was received.
NewHook == [data |-> "null", loading |-> TRUE, events |-> <<>>]

\* A handler that stores whatever the event carries.
OnToolResultStoring(h, p) ==
    [h EXCEPT !.data = IF p = "absent" THEN "null" ELSE p, !.loading = FALSE]

\* app.ontoolresult: setData only when structuredContent is there, then
\* setLoading(false).
OnToolResult(h, p) ==
    [h EXCEPT !.data = IF p # "absent" THEN p ELSE @, !.loading = FALSE]

\* Widget: the placeholder while loading or without data, else the page.
WidgetShows(h) == IF h.loading \/ h.data = "null" THEN "placeholder" ELSE "page"

\* JavaScript truthiness, a ?? b, a && b, and s !== 'none'.
Truthy(v) == v \notin {"undefined", "false", ""}
Coalesce(a, b) == IF a = "undefined" THEN b ELSE a
And(a, b) == IF Truthy(a) THEN b ELSE a
NotNone(v) == IF v # "none" THEN "true" ELSE "false"

NoFields ==
    [detected |-> "undefined", is_bullying |-> "undefined", unsafe |-> "undefined",
     grooming_risk |-> "undefined", bullying |-> "undefined"]

\* The result shapes the detection tools put into structuredContent:
\* DetectionResult, BullyingResult, UnsafeResult, GroomingResult and
\* AnalyzeResult with its optional nested bullying and unsafe results.
Results ==
    {[NoFields EXCEPT !.detected = b] : b \in {"true", "false"}}
    \cup {[NoFields EXCEPT !.is_bullying = b] : b \in {"true", "false"}}
    \cup {[NoFields EXCEPT !.unsafe = b] : b \in {"true", "false"}}
    \cup {[NoFields EXCEPT !.grooming_risk = g] : g \in {"none", "low", "high"}}
    \cup {[NoFields EXCEPT !.bullying = b, !.unsafe = u] :
            b \in {"undefined", "{is_bullying:true}", "{is_bullying:false}"},
            u \in {"undefined", "{unsafe:true}", "{unsafe:false}"}}

NoPage == [result |-> NoFields, pc |-> "none", text |-> "none", badge |-> "none"]

\* const detected = result.detected ?? result.is_bullying ?? result.unsafe
\*     ?? (result.grooming_risk && result.grooming_risk !== 'none') ?? false
Detected(r) ==
    Coalesce(r.detected,
        Coalesce(r.is_bullying,
            Coalesce(r.unsafe,
                Coalesce(And(r.grooming_risk, NotNone(r.grooming_risk)), "false"))))

\* Severities in hundredths: 30 stands for 0.3.
MaxSeverity == 100
Severities == 0..MaxSeverity

NoFinding == [severity |-> 0, pc |-> "none", textLevel |-> "none", widgetLevel |-> "none"]

\* f.severity <= 0.3 ? 'low' : f.severity <= 0.6 ? 'medium'
\*     : f.severity <= 0.85 ? 'high' : 'critical'
FormatterLevel(sv) ==
    IF sv <= 30 THEN "low"
    ELSE IF sv <= 60 THEN "medium"
    ELSE IF sv <= 85 THEN "high"
    ELSE "critical"

\* A scale whose thresholds belong to the level above.
severityLevelStrict(sv) ==
    IF sv < 30 THEN "low"
    ELSE IF sv < 60 THEN "medium"
    ELSE IF sv < 85 THEN "high"
    ELSE "critical"

\* TimelineFindings.severityLevel
severityLevel(sv) ==
    IF sv <= 30 THEN "low"
    ELSE IF sv <= 60 THEN "medium"
    ELSE IF sv <= 85 THEN "high"
    ELSE "critical"

-----------------------------------------------------------------------------
(* The HTTP binding: one action per synchronous run of the request handler *)

Init ==
    /\ transports = <<>>
    /\ tr = [t \in Transports |-> NoTransport]
    /\ req = [r \in Requests |-> NoRequest]
    /\ issued = 0
    /\ delivered = [t \in Transports |-> <<>>]
    /\ calls = [c \in Calls |-> NoCall]
    /\ emitted = <<>>
    /\ proc = HttpUp
    /\ tools = RegisteredTools
    /\ hook = NewHook
    /\ page = NoPage
    /\ finding = NoFinding

\* POST: construct a transport, install onclose, call server.connect and
\* suspend in it.  The mcp-session-id header is read but not used.
Post(r, h, b) ==
    /\ CanArrive(r)
    /\ tr' = [tr EXCEPT ![r] = [created |-> TRUE, sessionId |-> 0, closed |-> FALSE]]
    /\ req' = [req EXCEPT ![r] =
                 [method |-> "POST", sessionId |-> h, body |-> b,
                  pc |-> "connect", transport |-> r, status |-> 0, via |-> 0,
                  owner |-> OwnerOf(h), threw |-> FALSE]]
    /\ UNCHANGED <<transports, issued, delivered, calls, emitted, proc, tools, uiVars>>

\* server.connect resolved: the handler calls transport.handleRequest and
\* suspends in it.
ConnectReturn(r) ==
    /\ req[r].pc = "connect"
    /\ req' = [req EXCEPT ![r].pc = "handle"]
    /\ delivered' = [delivered EXCEPT ![req[r].transport] = Append(@, r)]
    /\ UNCHANGED <<transports, tr, issued, calls, emitted, proc, tools, uiVars>>

\* server.connect rejected: mcpHandler(req, res).catch answers 500.
ConnectThrow(r) ==
    /\ req[r].pc = "connect"
    /\ req' = [req EXCEPT ![r] = [CatchAnswer(@) EXCEPT !.pc = "done"]]
    /\ UNCHANGED <<transports, tr, issued, delivered, calls, emitted, proc, tools, uiVars>>

\* A handler that constructs the transport before it looks at the method:
\* a GET or DELETE, also a rejected one, leaves a transport behind.
LookupConstructing(r, m, h) ==
    /\ CanArrive(r)
    /\ tr' = [tr EXCEPT ![r] = [created |-> TRUE, sessionId |-> 0, closed |-> FALSE]]
    /\ IF ~(h # 0 /\ Has(transports, h))
       THEN /\ req' = [req EXCEPT ![r] =
                         [method |-> m, sessionId |-> h, body |-> "none",
                          pc |-> "done", transport |-> 0, status |-> 400, via |-> 0,
                          owner |-> OwnerOf(h), threw |-> FALSE]]
            /\ UNCHANGED delivered
       ELSE /\ req' = [req EXCEPT ![r] =
                         [method |-> m, sessionId |-> h, body |-> "none",
                          pc |-> "handle", transport |-> RegistryGet(transports, h),
                          status |-> 0, via |-> 0, owner |-> OwnerOf(h), threw |-> FALSE]]
            /\ delivered' = [delivered EXCEPT ![RegistryGet(transports, h)] = Append(@, r)]
    /\ UNCHANGED <<transports, issued, calls, emitted, proc, tools, uiVars>>

\* GET and DELETE share the lookup: reject with 400, or fetch the transport
\* and call handleRequest on it.
Lookup(r, m, h) ==
    /\ CanArrive(r)
    /\ IF ~(h # 0 /\ Has(transports, h))
       THEN /\ req' = [req EXCEPT ![r] =
                         [method |-> m, sessionId |-> h, body |-> "none",
                          pc |-> "done", transport |-> 0, status |-> 400, via |-> 0,
                          owner |-> OwnerOf(h), threw |-> FALSE]]
            /\ UNCHANGED delivered
       ELSE /\ req' = [req EXCEPT ![r] =
                         [method |-> m, sessionId |-> h, body |-> "none",
                          pc |-> PcAfterLookup, transport |-> RegistryGet(transports, h),
                          status |-> 0, via |-> 0, owner |-> OwnerOf(h), threw |-> FALSE]]
            /\ delivered' = IF PcAfterLookup = "handle"
                            THEN [delivered EXCEPT ![RegistryGet(transports, h)] = Append(@, r)]
                            ELSE delivered
    /\ UNCHANGED <<transports, tr, issued, calls, emitted, proc, tools, uiVars>>

Get(r, h) == Lookup(r, "GET", h)

Delete(r, h) == Lookup(r, "DELETE", h)

\* An unsupported method handled by the session lookup of GET and DELETE.
OtherAsGet(r, h) == Lookup(r, "OTHER", h)

\* Any other method: 405.
Other(r, h) ==
    /\ CanArrive(r)
    /\ req' = [req EXCEPT ![r] =
                 [method |-> "OTHER", sessionId |-> h, body |-> "none",
                  pc |-> "done", transport |-> 0, status |-> 405, via |-> 0,
                  owner |-> OwnerOf(h), threw |-> FALSE]]
    /\ UNCHANGED <<transports, tr, issued, delivered, calls, emitted, proc, tools, uiVars>>

\* What StreamableHTTPServerTransport.handleRequest does with the request
\* while the handler is suspended in it:
\*   POST  an initialize request on a fresh transport generates the session
\*         id, calls onsessioninitialized (transports.set) and answers 200;
\*         any other body on a fresh transport is answered 400;
\*   GET   opens the session's event stream (200);
\*   DELETE closes the transport, which calls onclose, and answers 200;
\*   after a POST or a GET the handler has nothing left to run, so the
\*   request is done once the transport has answered;
\*   a GET or DELETE whose MCP-Protocol-Version header is unsupported
\*   (pvOk false; the header is read here and nowhere else) is answered 400
\*   and changes nothing.
TransportStep(r, pvOk) ==
    LET t == req[r].transport
        id == sessionIdGenerator(issued)
    IN
    /\ req[r].pc = "handle"
    /\ IF req[r].method = "POST"
       THEN IF req[r].body = "initialize" /\ tr[t].sessionId = 0
            THEN /\ issued' = issued + 1
                 /\ tr' = [tr EXCEPT ![t].sessionId = id]
                 /\ transports' = RegistrySet(transports, id, t)
                 /\ req' = [req EXCEPT ![r] = [Answer(@, 200, t) EXCEPT !.pc = "done"]]
            ELSE /\ req' = [req EXCEPT ![r] = [Answer(@, 400, t) EXCEPT !.pc = "done"]]
                 /\ UNCHANGED <<transports, tr, issued>>
       ELSE IF req[r].method = "GET"
            THEN /\ req' = [req EXCEPT ![r] =
                              [Answer(@, IF pvOk THEN 200 ELSE 400, t) EXCEPT !.pc = "done"]]
                 /\ UNCHANGED <<transports, tr, issued>>
            ELSE IF pvOk
                 THEN /\ tr' = [tr EXCEPT ![t].closed = TRUE]
                      /\ transports' = OnClose(transports, t)
                      /\ req' = [req EXCEPT ![r] =
                                   [Answer(@, 200, t) EXCEPT !.pc = "effected"]]
                      /\ UNCHANGED issued
                 ELSE /\ req' = [req EXCEPT ![r] =
                                   [Answer(@, 400, t) EXCEPT !.pc = "effected"]]
                      /\ UNCHANGED <<transports, tr, issued>>
    /\ UNCHANGED <<delivered, calls, emitted, proc, tools, uiVars>>

\* DELETE: handleRequest resolved, the handler resumes and runs
\* transports.delete(sessionId).
DeleteReturn(r) ==
    /\ req[r].pc = "effected"
    /\ transports' = RegistryDelete(transports, req[r].sessionId)
    /\ req' = [req EXCEPT ![r].pc = "done"]
    /\ UNCHANGED <<tr, issued, delivered, calls, emitted, proc, tools, uiVars>>

\* handleRequest rejected before the transport acted on the request:
\* mcpHandler(req, res).catch answers 500.
HandleThrow(r) ==
    /\ req[r].pc = "handle"
    /\ req' = [req EXCEPT ![r] = [CatchAnswer(@) EXCEPT !.pc = "done"]]
    /\ UNCHANGED <<transports, tr, issued, delivered, calls, emitted, proc, tools, uiVars>>

\* DELETE: handleRequest rejected after the transport acted: the rest of the
\* handler (transports.delete) is skipped; the headers were sent, so the
\* catch writes nothing.
DeleteThrow(r) ==
    /\ req[r].pc = "effected"
    /\ req' = [req EXCEPT ![r] = [CatchAnswer(@) EXCEPT !.pc = "done"]]
    /\ UNCHANGED <<transports, tr, issued, delivered, calls, emitted, proc, tools, uiVars>>

\* The transport of a session closes on its own: onclose runs.
TransportClose(t) ==
    /\ Live(t)
    /\ tr' = [tr EXCEPT ![t].closed = TRUE]
    /\ transports' = OnClose(transports, t)
    /\ UNCHANGED <<req, issued, delivered, calls, emitted, proc, tools, uiVars>>

Next ==
    \/ \E r \in Requests, h \in HeadersNow, b \in Bodies : Post(r, h, b)
    \/ \E r \in Requests, h \in HeadersNow : Get(r, h)
    \/ \E r \in Requests, h \in HeadersNow : Delete(r, h)
    \/ \E r \in Requests, h \in HeadersNow : Other(r, h)
    \/ \E r \in Requests : ConnectReturn(r)
    \/ \E r \in Requests : ConnectThrow(r)
    \/ \E r \in Requests, pvOk \in BOOLEAN : TransportStep(r, pvOk)
    \/ \E r \in Requests : DeleteReturn(r)
    \/ \E r \in Requests : HandleThrow(r)
    \/ \E r \in Requests : DeleteThrow(r)
    \/ \E t \in Transports : TransportClose(t)

Spec == Init /\ [][Next]_vars

-----------------------------------------------------------------------------
(* Tool dispatch on the stdio session: the server hands every tools/call   *)
(* request to the CallToolRequestSchema handler as it arrives and writes   *)
(* the response when the handler's promise settles; a handler suspended in *)
(* "await client.<method>(...)" does not hold back the requests after it.  *)

\* Tool invocations arrive one after the other.
CanCall(c) ==
    /\ calls[c].pc = "idle"
    /\ IF c = 1 THEN TRUE ELSE calls[c - 1].pc # "idle"

\* A switch with a case for every name.
KnownToolAll(name) == TRUE

\* The switch on the tool name: a known tool calls the Tuteliq client and
\* suspends; the default case returns "Unknown tool" with isError set.
KnownTool(name) == name = "detect_bullying"

\* hasContent says whether request.params.arguments carries the field
\* "content", which the input schema of detect_bullying marks as required;
\* the handler reads args.content without looking whether it is there.
ToolRequest(c, name, hasContent) ==
    /\ CanCall(c)
    /\ IF KnownTool(name)
       THEN /\ calls' = [calls EXCEPT ![c] =
                           [name |-> name, pc |-> "awaiting", isError |-> FALSE, text |-> "none",
                            hasContent |-> hasContent, listed |-> <<>>]]
            /\ UNCHANGED emitted
       ELSE /\ calls' = [calls EXCEPT ![c] =
                           [name |-> name, pc |-> "done", isError |-> TRUE,
                            text |-> "Unknown tool", hasContent |-> hasContent, listed |-> <<>>]]
            /\ emitted' = Append(emitted, c)
    /\ UNCHANGED <<httpVars, proc, tools, uiVars>>

\* A handler that hands out the array and empties it.
ListToolsDraining(c) ==
    /\ CanCall(c)
    /\ calls' = [calls EXCEPT ![c] =
                    [name |-> "tools/list", pc |-> "done", isError |-> FALSE,
                     text |-> "none", hasContent |-> FALSE, listed |-> tools]]
    /\ emitted' = Append(emitted, c)
    /\ tools' = <<>>
    /\ UNCHANGED <<httpVars, proc, uiVars>>

\* The ListToolsRequestSchema handler: return { tools }.
ListTools(c) ==
    /\ CanCall(c)
    /\ calls' = [calls EXCEPT ![c] =
                    [name |-> "tools/list", pc |-> "done", isError |-> FALSE,
                     text |-> "none", hasContent |-> FALSE, listed |-> tools]]
    /\ emitted' = Append(emitted, c)
    /\ UNCHANGED <<httpVars, proc, tools, uiVars>>

\* The client's promise resolves: the handler formats and returns the result.
ClientResolve(c) ==
    /\ calls[c].pc = "awaiting"
    /\ calls' = [calls EXCEPT ![c].pc = "done", ![c].text = "result"]
    /\ emitted' = Append(emitted, c)
    /\ UNCHANGED <<httpVars, proc, tools, uiVars>>

\* What a rejected client call can carry: an Error object, whose message is
\* "message", or any other value (a string, a plain object).
Thrown == {"Error", "value"}

\* error instanceof Error ? error.message : 'Unknown error', behind "Error: ".
CatchMessage(thrown) ==
    IF thrown = "Error" THEN "Error: message" ELSE "Error: Unknown error"

\* The client's promise rejects: the catch block returns the message with
\* isError set.
ClientReject(c, thrown) ==
    /\ calls[c].pc = "awaiting"
    /\ calls' = [calls EXCEPT ![c].pc = "done", ![c].isError = TRUE,
                              ![c].text = CatchMessage(thrown)]
    /\ emitted' = Append(emitted, c)
    /\ UNCHANGED <<httpVars, proc, tools, uiVars>>

InitTools == Init

NextTools ==
    \/ \E c \in Calls, name \in ToolNames, hasContent \in BOOLEAN :
          ToolRequest(c, name, hasContent)
    \/ \E c \in Calls : ClientResolve(c)
    \/ \E c \in Calls, thrown \in Thrown : ClientReject(c, thrown)
    \/ \E c \in Calls : ListTools(c)

SpecTools == InitTools /\ [][NextTools]_vars

-----------------------------------------------------------------------------
(* Startup: the steps of the process from its start to serving.            *)

\* The top level of index.ts runs, when index.js is the entry point and when
\* server.ts imports it: in stdio mode it makes a server and starts stdio.
LoadIndex ==
    /\ proc.pc = "start"
    /\ proc' = IF getTransportMode(proc.transportEnv) = "stdio"
               THEN LET p == createServer(proc)
                    IN  IF p.pc = "exited" THEN p
                        ELSE [startStdio(p) EXCEPT !.pc = "indexLoaded"]
               ELSE [proc EXCEPT !.pc = "indexLoaded"]
    /\ UNCHANGED <<httpVars, toolVars, tools, uiVars>>

\* index.js was the entry point: nothing else runs.  Without a stdio
\* transport nothing keeps the process alive and it ends with code 0.
EndOfLoad ==
    /\ proc.pc = "indexLoaded"
    /\ proc.entry = "index"
    /\ proc' = IF proc.stdio = "none" THEN Exit(proc, 0) ELSE [proc EXCEPT !.pc = "up"]
    /\ UNCHANGED <<httpVars, toolVars, tools, uiVars>>

\* The body of server.ts after its imports: createServer, createHttpHandler,
\* app.listen.
LoadServer ==
    /\ proc.pc = "indexLoaded"
    /\ proc.entry = "server"
    /\ proc' = LET p == createServer(proc)
               IN  IF p.pc = "exited" THEN p
                   ELSE [p EXCEPT !.pc = "up", !.listening = TRUE]
    /\ UNCHANGED <<httpVars, toolVars, tools, uiVars>>

\* server.connect(transport) of startStdio resolves.
StdioConnected ==
    /\ proc.pc # "exited"
    /\ proc.stdio = "connecting"
    /\ proc' = [proc EXCEPT !.stdio = "connected"]
    /\ UNCHANGED <<httpVars, toolVars, tools, uiVars>>

\* server.connect(transport) of startStdio rejects: "Fatal error", exit 1.
StdioFailed ==
    /\ proc.pc # "exited"
    /\ proc.stdio = "connecting"
    /\ proc' = Exit([proc EXCEPT !.stdio = "failed"], 1)
    /\ UNCHANGED <<httpVars, toolVars, tools, uiVars>>

\* The listener accepts requests once app.listen was called.
Serving == proc.listening /\ proc.pc # "exited"

InitBoot ==
    /\ transports = <<>>
    /\ tr = [t \in Transports |-> NoTransport]
    /\ req = [r \in Requests |-> NoRequest]
    /\ issued = 0
    /\ delivered = [t \in Transports |-> <<>>]
    /\ calls = [c \in Calls |-> NoCall]
    /\ emitted = <<>>
    /\ proc \in StartStates
    /\ tools = RegisteredTools
    /\ hook = NewHook
    /\ page = NoPage
    /\ finding = NoFinding

NextBoot ==
    \/ LoadIndex
    \/ EndOfLoad
    \/ LoadServer
    \/ StdioConnected
    \/ StdioFailed
    \/ Serving /\ \E r \in Requests, h \in HeadersNow, b \in Bodies : Post(r, h, b)
    \/ Serving /\ \E r \in Requests : ConnectReturn(r)
    \/ Serving /\ \E r \in Requests, pvOk \in BOOLEAN : TransportStep(r, pvOk)

SpecBoot == InitBoot /\ [][NextBoot]_vars

-----------------------------------------------------------------------------
(* The widgets: events and renderings.                                     *)

\* Number of tool-result events a widget receives in one run.
MaxEvents == 4

\* A tool-result event reaches the hook.
ToolResultEvent(p) ==
    /\ Len(hook.events) < MaxEvents
    /\ hook' = [OnToolResult(hook, p) EXCEPT !.events = Append(@, p)]
    /\ UNCHANGED <<httpVars, toolVars, proc, tools, page, finding>>

InitHook == Init

NextHook == \E p \in Payloads : ToolResultEvent(p)

SpecHook == InitHook /\ [][NextHook]_vars

\* DetectionPage renders its data.
RenderDetection ==
    /\ page.pc = "data"
    /\ page' = [page EXCEPT
                  !.pc = "rendered",
                  !.text = IF Truthy(Detected(page.result))
                           THEN "Threat detected" ELSE "No threat detected",
                  !.badge = IF Truthy(Detected(page.result)) THEN "Risk" ELSE "Safe"]
    /\ UNCHANGED <<httpVars, toolVars, proc, tools, hook, finding>>

\* formatVideoResult formats the finding for the text content.
FormatVideo ==
    /\ finding.textLevel = "none"
    /\ finding' = [finding EXCEPT !.textLevel = FormatterLevel(finding.severity)]
    /\ UNCHANGED <<httpVars, toolVars, proc, tools, hook, page>>

\* TimelineFindings renders the finding in the widget.
RenderTimeline ==
    /\ finding.widgetLevel = "none"
    /\ finding' = [finding EXCEPT !.widgetLevel = severityLevel(finding.severity)]
    /\ UNCHANGED <<httpVars, toolVars, proc, tools, hook, page>>

InitPages ==
    /\ transports = <<>>
    /\ tr = [t \in Transports |-> NoTransport]
    /\ req = [r \in Requests |-> NoRequest]
    /\ issued = 0
    /\ delivered = [t \in Transports |-> <<>>]
    /\ calls = [c \in Calls |-> NoCall]
    /\ emitted = <<>>
    /\ proc = HttpUp
    /\ tools = RegisteredTools
    /\ hook = NewHook
    /\ page \in {[NoPage EXCEPT !.result = r, !.pc = "data"] : r \in Results}
    /\ finding \in {[NoFinding EXCEPT !.severity = sv, !.pc = "data"] : sv \in Severities}

NextPages ==
    \/ RenderDetection
    \/ FormatVideo
    \/ RenderTimeline

SpecPages == InitPages /\ [][NextPages]_vars

TypeOK ==
    /\ DOMAIN transports \subseteq SessionIds
    /\ \A i \in DOMAIN transports : transports[i] \in Transports
    /\ issued \in 0..MaxReq
    /\ \A r \in Requests :
          /\ req[r].pc \in {"idle", "connect", "handle", "effected", "done"}
          /\ req[r].status \in {0, 200, 400, 405, 500}
          /\ req[r].transport \in 0..MaxReq

-----------------------------------------------------------------------------
(* Properties                                                              *)

\* The requests whose transport.handleRequest call has not settled, per transport.
InProgress(t) ==
    {r \in Requests : req[r].pc \in {"handle", "effected"} /\ req[r].transport = t}

\* A DELETE that was handed to transport t and whose handler ran to its end.
Dropped(t) ==
    \E d \in Requests :
        /\ req[d].method = "DELETE"
        /\ req[d].transport = t
        /\ req[d].pc = "done"
        /\ req[d].status # 500

Increasing(seq) ==
    \A i, j \in 1..Len(seq) : i < j => seq[i] < seq[j]

\* C1: in every reachable state the registry and the live sessions are in
\* bijection: every identifier in the map maps to a live transport that
\* carries this identifier, and every live session's identifier is a key of
\* the map and maps to that session's transport.
C1_Bijection ==
    /\ \A id \in DOMAIN transports :
          Live(transports[id]) /\ tr[transports[id]].sessionId = id
    /\ \A t \in Transports :
          Live(t) => /\ Has(transports, tr[t].sessionId)
                     /\ transports[tr[t].sessionId] = t

\* C2: no two live sessions share an identifier, and the registry entry of
\* an identifier is the transport that was initialized with it: inserting a
\* new session never overwrites the entry of another live session.
C2_UniqueSessionIds ==
    /\ \A t1, t2 \in Transports :
          (Live(t1) /\ Live(t2) /\ t1 # t2) => tr[t1].sessionId # tr[t2].sessionId
    /\ \A id \in DOMAIN transports : tr[transports[id]].sessionId = id

\* Two sessions are live and registered at once.
C2_Witness ==
    \E t1, t2 \in Transports :
        /\ t1 # t2
        /\ Live(t1) /\ Live(t2)
        /\ Has(transports, tr[t1].sessionId) /\ Has(transports, tr[t2].sessionId)

\* C3: a request that arrived on live session S (its header named S) and was
\* answered by a transport was answered by S's own transport.
C3_OwnTransport ==
    \A r \in Requests :
        (req[r].owner # 0 /\ req[r].via # 0) => req[r].via = req[r].owner

\* C4: a GET whose header is absent or names no live session (never issued,
\* or issued and closed) is answered 400 by the binding and is handed to no
\* transport.
C4_GetRejected ==
    \A r \in Requests :
        (req[r].method = "GET" /\ req[r].owner = 0) =>
            /\ req[r].pc = "done"
            /\ req[r].status = 400
            /\ req[r].via = 0
            /\ req[r].transport = 0
            /\ \A t \in Transports : \A i \in 1..Len(delivered[t]) : delivered[t][i] # r

\* A GET carried the identifier of a session that had been closed, and was
\* rejected.
C4_Witness ==
    \E r \in Requests, t \in Transports :
        /\ req[r].method = "GET"
        /\ req[r].sessionId # 0
        /\ req[r].sessionId = tr[t].sessionId
        /\ tr[t].closed
        /\ req[r].owner = 0
        /\ req[r].status = 400

\* C5: once a DELETE that carried the identifier of a registered session has
\* been handled, every GET or DELETE arriving with that identifier is
\* rejected with 400 and handed to no transport.
C5_ClosedStaysClosed ==
    [][\A d, r \in Requests :
          ( /\ req[d].method = "DELETE"
            /\ req[d].transport # 0
            /\ req[d].pc = "done"
            /\ req[r].pc = "idle"
            /\ req'[r].pc # "idle"
            /\ req'[r].method \in {"GET", "DELETE"}
            /\ req'[r].sessionId = req[d].sessionId )
          => (req'[r].status = 400 /\ req'[r].transport = 0)]_vars

\* C6: once the handling of a DELETE for a registered identifier has ended,
\* by return or by throw, the registry does not contain the identifier.
C6_RegistryReleased ==
    \A d \in Requests :
        (req[d].method = "DELETE" /\ req[d].transport # 0 /\ req[d].pc = "done")
            => ~Has(transports, req[d].sessionId)

\* C7: every transport is handed its requests in the order in which they
\* arrived (requests are numbered in arrival order), whatever requests for
\* other sessions arrive in between.
C7_ArrivalOrder == \A t \in Transports : Increasing(delivered[t])

\* A session was handed two requests, a request of another session arrived
\* between the two, and that one is still being handled.
C7_Witness ==
    \E t1, t2 \in Transports :
        /\ t1 # t2
        /\ Len(delivered[t1]) >= 2
        /\ Len(delivered[t2]) >= 1
        /\ delivered[t1][1] < delivered[t2][1]
        /\ delivered[t2][1] < delivered[t1][2]
        /\ req[delivered[t2][1]].pc = "handle"

\* C8: the responses of the session's tool invocations are emitted in the
\* arrival order of the invocations.
C8_ResponseOrder == Increasing(emitted)

\* C9: at no time are two handleRequest calls in progress on one transport.
C9_SingleWriter == \A t \in Transports : Cardinality(InProgress(t)) <= 1

\* C10: any two POSTs without a session header that initialized a session
\* got distinct identifiers, and each session is in the registry under its
\* identifier for as long as it is neither closed nor deleted.
C10_ConcurrentPosts ==
    \A r1, r2 \in Requests :
        ( /\ r1 # r2
          /\ req[r1].method = "POST" /\ req[r2].method = "POST"
          /\ req[r1].sessionId = 0 /\ req[r2].sessionId = 0
          /\ req[r1].status = 200 /\ req[r2].status = 200 )
        => /\ tr[r1].sessionId # 0
           /\ tr[r1].sessionId # tr[r2].sessionId
           /\ (Live(r1) /\ ~Dropped(r1)) =>
                 (Has(transports, tr[r1].sessionId) /\ transports[tr[r1].sessionId] = r1)

\* Two header-less POSTs were in flight together (the later one was
\* initialized first) and both sessions are in the registry.
C10_Witness ==
    \E r1, r2 \in Requests :
        /\ r1 < r2
        /\ req[r1].method = "POST" /\ req[r2].method = "POST"
        /\ req[r1].sessionId = 0 /\ req[r2].sessionId = 0
        /\ req[r1].status = 200 /\ req[r2].status = 200
        /\ tr[r2].sessionId < tr[r1].sessionId
        /\ Has(transports, tr[r1].sessionId) /\ transports[tr[r1].sessionId] = r1
        /\ Has(transports, tr[r2].sessionId) /\ transports[tr[r2].sessionId] = r2

\* C11: every session identifier that is issued differs from every
\* identifier issued before it, also from those of sessions that have been
\* closed since: no two transports, open or closed, were initialized with
\* the same identifier, and the identifiers issued are as many as the
\* sessions initialized.
C11_NeverReused ==
    /\ \A t1, t2 \in Transports :
          (t1 # t2 /\ tr[t1].sessionId # 0 /\ tr[t2].sessionId # 0)
              => tr[t1].sessionId # tr[t2].sessionId
    /\ Cardinality({t \in Transports : tr[t].sessionId # 0}) = issued

\* A session was closed and a POST without a session header was answered
\* with another identifier afterwards (the POST arrived after the DELETE).
C11_Witness ==
    \E t1, t2 \in Transports, d \in Requests :
        /\ tr[t1].sessionId # 0 /\ tr[t1].closed
        /\ req[d].method = "DELETE" /\ req[d].transport = t1 /\ req[d].pc = "done"
        /\ d < t2
        /\ req[t2].method = "POST" /\ req[t2].sessionId = 0 /\ req[t2].status = 200
        /\ Live(t2)
        /\ tr[t2].sessionId # tr[t1].sessionId

\* C12: a GET that carried the identifier of a live session and was routed
\* was handed to that session's transport and to no other transport, and
\* was answered by it.
C12_GetRouted ==
    \A r \in Requests :
        (req[r].method = "GET" /\ req[r].owner # 0 /\ req[r].transport # 0) =>
            /\ req[r].transport = req[r].owner
            /\ tr[req[r].owner].sessionId = req[r].sessionId
            /\ \E i \in 1..Len(delivered[req[r].owner]) : delivered[req[r].owner][i] = r
            /\ \A t \in Transports \ {req[r].owner} :
                  \A i \in 1..Len(delivered[t]) : delivered[t][i] # r
            /\ req[r].via \in {0, req[r].owner}

\* With two sessions registered, a GET for the second one was routed to it
\* and answered by it.
C12_Witness ==
    \E r \in Requests, t1, t2 \in Transports :
        /\ t1 < t2
        /\ Live(t1) /\ Live(t2)
        /\ Has(transports, tr[t1].sessionId) /\ Has(transports, tr[t2].sessionId)
        /\ req[r].method = "GET"
        /\ req[r].owner = t2
        /\ req[r].transport = t2
        /\ req[r].status = 200 /\ req[r].via = t2

\* C13: a POST that carries the identifier of a live session constructs no
\* transport and creates no session: it is routed to the existing session's
\* transport.
C13_PostRoutedToSession ==
    \A r \in Requests :
        (req[r].method = "POST" /\ req[r].owner # 0) =>
            /\ ~tr[r].created
            /\ tr[r].sessionId = 0
            /\ req[r].transport = req[r].owner

\* C14: a step in which the binding rejects a GET or DELETE with 400 changes
\* neither the registry nor any transport nor what the transports were
\* handed, nor any other request.
C14_RejectionChangesNothing ==
    [][\A r \in Requests :
          ( /\ req[r].pc = "idle"
            /\ req'[r].pc = "done"
            /\ req'[r].method \in {"GET", "DELETE"}
            /\ req'[r].status = 400
            /\ req'[r].via = 0 )
          => /\ transports' = transports
             /\ tr' = tr
             /\ issued' = issued
             /\ delivered' = delivered
             /\ \A q \in Requests \ {r} : req'[q] = req[q]]_vars

\* A DELETE with an identifier the registry does not hold was rejected while
\* a session was registered and another request was suspended in its handler.
C14_Witness ==
    \E r, q \in Requests, t \in Transports :
        /\ req[r].method = "DELETE"
        /\ req[r].sessionId # 0
        /\ req[r].status = 400 /\ req[r].via = 0
        /\ Live(t) /\ Has(transports, tr[t].sessionId)
        /\ req[q].pc = "handle"


\* C15 (as stated): every request whose handling threw, before or after the
\* response headers were sent, ends with a 500 response.
C15_AlwaysFiveHundred ==
    \A r \in Requests : req[r].threw => req[r].status = 500

\* C15 (amended): a fault thrown while handling a request is caught at the
\* binding boundary and the request ends; when no header had been sent the
\* binding answers 500, and when the transport had already answered, the status
\* it sent stands and no 500 is written.
C15_FaultCaught ==
    \A r \in Requests :
        req[r].threw =>
            /\ req[r].pc = "done"
            /\ req[r].status # 0
            /\ req[r].status = 500 <=> req[r].via = 0

C15_Witness ==
    /\ \E r \in Requests : req[r].threw /\ req[r].status = 500
    /\ \E q \in Requests : req[q].threw /\ req[q].via # 0


\* C16: once a GET or DELETE for session S has thrown and been answered 500 by
\* the binding, S is no longer in the registry.
C16_FaultTearsDown ==
    \A r \in Requests :
        (/\ req[r].method \in {"GET", "DELETE"}
         /\ req[r].threw
         /\ req[r].status = 500)
            => ~Has(transports, req[r].sessionId)


C19_CloseRemovesOwnEntry ==
    [][\A t \in Transports :
          (/\ ~tr[t].closed
           /\ tr'[t].closed
           /\ Has(transports, tr[t].sessionId)
           /\ transports[tr[t].sessionId] = t) =>
              /\ ~Has(transports', tr[t].sessionId)
              /\ DOMAIN transports' = (DOMAIN transports) \ {tr[t].sessionId}
              /\ \A i \in DOMAIN transports' : transports'[i] = transports[i]]_vars

C19_Witness ==
    \E t, u \in Transports :
        /\ t # u
        /\ tr[t].closed
        /\ tr[t].sessionId # 0
        /\ ~Has(transports, tr[t].sessionId)
        /\ Live(u)
        /\ tr[u].sessionId < tr[t].sessionId
        /\ Has(transports, tr[u].sessionId)
        /\ transports[tr[u].sessionId] = u


\* C20: a call naming a tool that is not registered is answered at once with
\* a result whose error marker is set and whose text says "Unknown tool"; the
\* handler returns normally, so the next call is accepted and can succeed.
C20_UnknownToolResult ==
    \A c \in Calls :
        calls[c].name = "no_such_tool" =>
            /\ calls[c].pc = "done"
            /\ calls[c].isError
            /\ calls[c].text = "Unknown tool"
            /\ \E i \in 1..Len(emitted) : emitted[i] = c
            /\ (c + 1 \in Calls /\ calls[c + 1].pc = "idle") =>
                   ENABLED ToolRequest(c + 1, "detect_bullying", TRUE)

C20_Witness ==
    \E c, d \in Calls :
        /\ c < d
        /\ calls[c].name = "no_such_tool"
        /\ calls[c].pc = "done"
        /\ calls[c].isError
        /\ calls[d].name = "detect_bullying"
        /\ calls[d].pc = "done"
        /\ calls[d].text = "result"


\* C21: a detect_bullying call whose arguments lack the required field
\* "content" never reaches the Tuteliq client, and is answered with an
\* error-flagged InvalidArguments result.
C21_MissingFieldRejected ==
    \A c \in Calls :
        (calls[c].name = "detect_bullying" /\ ~calls[c].hasContent) =>
            /\ calls[c].pc # "awaiting"
            /\ calls[c].pc = "done" => (calls[c].isError /\ calls[c].text = "InvalidArguments")


\* C22: whatever value the Tuteliq client throws, the call ends with an
\* error-flagged result that carries the client's own message.
C22_OriginalMessage ==
    \A c \in Calls :
        (calls[c].pc = "done" /\ calls[c].isError /\ KnownTool(calls[c].name)) =>
            calls[c].text = "Error: message"


\* C23: a step of any request other than a DELETE carrying identifier i (a
\* POST, a request addressed to another session, a rejected request) leaves
\* the registry entry of i in place with the transport it had.  The handler
\* sets no timer, so no step stands for idle time.
C23_OnlyDeleteRemoves ==
    [][\A r \in Requests : \A i \in DOMAIN transports :
          (/\ req'[r] # req[r]
           /\ ~(req'[r].method = "DELETE" /\ req'[r].sessionId = i)) =>
              (Has(transports', i) /\ transports'[i] = transports[i])]_vars

C23_Witness ==
    \E r \in Requests : \E i \in DOMAIN transports :
        /\ req[r].method = "DELETE"
        /\ req[r].pc = "done"
        /\ req[r].status = 200
        /\ req[r].sessionId # i
        /\ req[r].sessionId > i
        /\ Live(transports[i])


C25_OnlyStdio ==
    getTransportMode(proc.transportEnv) = "stdio" =>
        /\ proc.servers <= 1
        /\ ~proc.listening
        /\ transports = <<>>
        /\ \A t \in Transports : ~tr[t].created


\* C26: the tool registry is the same ordered sequence in every reachable
\* state, whatever calls were made and however they ended, and every
\* list-tools request returned exactly that sequence.
C26_RegistryImmutable ==
    /\ tools = RegisteredTools
    /\ \A c \in Calls :
          (calls[c].name = "tools/list" /\ calls[c].pc = "done") =>
              calls[c].listed = RegisteredTools

C26_Witness ==
    \E c, d, e \in Calls :
        /\ c < d /\ d < e
        /\ calls[c].name = "tools/list" /\ calls[c].pc = "done"
        /\ calls[d].pc = "done" /\ calls[d].isError
        /\ calls[e].name = "tools/list" /\ calls[e].pc = "done"
        /\ calls[e].listed = calls[c].listed


\* C27 (as stated): the mode is stdio exactly for the values that spell
\* "stdio" in any mix of upper and lower case, and http otherwise, and once
\* index.ts has run the stdio binding was started exactly when the mode is
\* stdio.
C27_StartedIffStdio ==
    LET e == proc.transportEnv
        spelling == <<{"s", "S"}, {"t", "T"}, {"d", "D"}, {"i", "I"}, {"o", "O"}>>
        anyCase == e.set /\ Len(e.value) = 5 /\ \A i \in 1..5 : e.value[i] \in spelling[i]
        mode == getTransportMode(e)
    IN  /\ mode = (IF anyCase THEN "stdio" ELSE "http")
        /\ proc.pc # "start" => (proc.stdio # "none" <=> mode = "stdio")

\* C27 (amended): the mode is as stated, and once index.ts has run the stdio
\* binding was started exactly when the mode is stdio and TUTELIQ_API_KEY is
\* present; with the key missing the process has exited instead.
C27_StartedIffStdioWithKey ==
    LET e == proc.transportEnv
        spelling == <<{"s", "S"}, {"t", "T"}, {"d", "D"}, {"i", "I"}, {"o", "O"}>>
        anyCase == e.set /\ Len(e.value) = 5 /\ \A i \in 1..5 : e.value[i] \in spelling[i]
        mode == getTransportMode(e)
        keyPresent == proc.apiKey.set /\ proc.apiKey.value # <<>>
    IN  /\ mode = (IF anyCase THEN "stdio" ELSE "http")
        /\ proc.pc # "start" =>
              /\ proc.stdio # "none" <=> (mode = "stdio" /\ keyPresent)
              /\ (mode = "stdio" /\ ~keyPresent) => (proc.pc = "exited" /\ proc.exitCode = 1)

C27_Witness ==
    /\ proc.transportEnv.set
    /\ proc.transportEnv.value = <<"S", "t", "d", "I", "o">>
    /\ proc.pc = "up"
    /\ proc.stdio = "connected"
    /\ proc.entry = "index"


\* C28: after any sequence of tool-result events, loading is true exactly when
\* no event was received; data is the structuredContent of the latest event
\* that carried one, null if none did; and a widget that received only events
\* without structuredContent still shows its placeholder.
C28_HookState ==
    LET carried == {i \in 1..Len(hook.events) : hook.events[i] # "absent"}
        latest == CHOOSE i \in carried : \A j \in carried : j <= i
    IN  /\ hook.loading <=> Len(hook.events) = 0
        /\ hook.data = (IF carried = {} THEN "null" ELSE hook.events[latest])
        /\ carried = {} => WidgetShows(hook) = "placeholder"
        /\ carried # {} => WidgetShows(hook) = "page"

C28_Witness ==
    /\ Len(hook.events) = 3
    /\ hook.events[1] = "p1"
    /\ hook.events[2] = "p2"
    /\ hook.events[3] = "absent"
    /\ hook.data = "p2"
    /\ ~hook.loading


\* C29: DetectionPage shows "Threat detected" and the Risk badge exactly when
\* the result indicates a detection: detected, is_bullying or unsafe true, a
\* grooming_risk other than "none", or an analyze result whose nested bullying
\* or unsafe check detected something; otherwise "No threat detected" and
\* "Safe".
C29_ShowsDetection ==
    LET r == page.result
        indicates ==
            \/ r.detected = "true"
            \/ r.is_bullying = "true"
            \/ r.unsafe = "true"
            \/ r.grooming_risk \notin {"undefined", "none"}
            \/ r.bullying = "{is_bullying:true}"
            \/ r.unsafe = "{unsafe:true}"
    IN  page.pc = "rendered" =>
            /\ page.text = (IF indicates THEN "Threat detected" ELSE "No threat detected")
            /\ page.badge = (IF indicates THEN "Risk" ELSE "Safe")


\* C30: for every severity, once the text formatter and the widget have both
\* levelled a finding they agree, and the level is low up to 0.3, medium up to
\* 0.6, high up to 0.85 and critical above.
C30_SameLevel ==
    (finding.textLevel # "none" /\ finding.widgetLevel # "none") =>
        /\ finding.textLevel = finding.widgetLevel
        /\ finding.severity \in 0..30 => finding.widgetLevel = "low"
        /\ finding.severity \in 31..60 => finding.widgetLevel = "medium"
        /\ finding.severity \in 61..85 => finding.widgetLevel = "high"
        /\ finding.severity > 85 => finding.widgetLevel = "critical"

C30_Witness ==
    /\ finding.severity = 30
    /\ finding.textLevel = "low"
    /\ finding.widgetLevel = "low"

=============================================================================
